---- MODULE Spec2Model ----
(***************************************************************************)
(* Model of the cover-image fetch subsystem of Game_Emulator               *)
(* (src/images.py, class ImageFetcher).                                    *)
(*                                                                         *)
(* Strings are sequences of one-character strings.  The filesystem is a    *)
(* directory (path -> inode) plus the content of every inode, a sequence   *)
(* of chunks: an open file handle refers to an inode, not to a path, so a  *)
(* rename moves the inode a writer still holds.                            *)
(***************************************************************************)
EXTENDS Integers, Sequences, FiniteSets, TLC

\* ----------------------------------------------------------------- bounds
\* number of fetch() calls issued by the GUI thread
MaxReq == 2
\* longest key fed to _local_path_for in SpecPath
MaxKeyLen == 3

\* ------------------------------------------------------------ characters
\* "U+00E9" stands for the one character e-acute, "U+00B2" for superscript 2
AsciiAlnum == {"a", "7"}
UnicodeAlnum == {"U+00E9", "U+00B2"}
Alphabet == AsciiAlnum \cup UnicodeAlnum \cup {"_", "-", ".", ":", " "}

\* str.isalnum() of a one-character string: true for every Unicode letter
\* or digit, not only for the ASCII ones
IsAlnumAsciiOnly(c) == c \in AsciiAlnum

IsAlnum(c) == c \in AsciiAlnum \cup UnicodeAlnum

\* the generator expression of line 68
SafeChar(c) == IF IsAlnum(c) \/ c \in {"_", "-", "."} THEN c ELSE "_"

\* os.path.join(a, b) for a relative b
OsPathJoin(a, b) ==
    IF a = <<>> THEN b
    ELSE IF a[Len(a)] = "/" THEN a \o b
    ELSE a \o <<"/">> \o b

\* cfg["covers_dir"]
covers_dir == <<"c">>

PngExt == <<".", "p", "n", "g">>
TmpExt == <<".", "t", "m", "p">>

local_path_for(key) ==
    OsPathJoin(covers_dir, [i \in 1..Len(key) |-> SafeChar(key[i])] \o PngExt)

\* tmp_path = f"{local_path}.tmp"
TmpPathOf(local_path) == local_path \o TmpExt

\* str.strip() on the whitespace character " "
RECURSIVE LStrip(_)
LStrip(s) == IF s # <<>> /\ s[1] = " " THEN LStrip(Tail(s)) ELSE s

RECURSIVE RStrip(_)
RStrip(s) ==
    IF s # <<>> /\ s[Len(s)] = " " THEN RStrip(SubSeq(s, 1, Len(s) - 1)) ELSE s

StripNothing(s) == s

Strip(s) == RStrip(LStrip(s))

\* ---------------------------------------------------------------- inputs
None == "None"
\* the server behind "u1" sends two chunks, any other answers 200 with an
\* empty body
ServerBody(url) == IF url = "u1" THEN <<1, 2>> ELSE <<>>

\* truthiness of an image_url (None and "" are falsy)
UrlTruthy(url) == url # None /\ url # ""

\* the catalog: the game records whose covers the GUI asks for
\* (ui_bigpicture.py line 262); two records share a key
Games ==
    { [key |-> <<"a", ":">>, url |-> "u1"],
      [key |-> <<"a", ":">>, url |-> "u2"],
      [key |-> <<"7">>, url |-> None] }
RawApiKeys == {<<>>, <<" ">>, <<"k">>}

RECURSIVE SeqsUpTo(_, _)
SeqsUpTo(S, n) ==
    IF n = 0 THEN {<<>>}
    ELSE LET P == SeqsUpTo(S, n - 1)
         IN P \cup {Append(s, c) : s \in {p \in P : Len(p) = n - 1}, c \in S}

AllKeys == SeqsUpTo(Alphabet, MaxKeyLen)

Reqs == 1..MaxReq

\* ----------------------------------------------------------------- state
VARIABLES
    cfg,        \* the configuration dict handed to __init__
    api_key,    \* self.api_key
    nreq,       \* number of fetch() calls made so far
    req,        \* arguments of each call and its local_path
    threads,    \* requests for which fetch() started a worker thread
    pc,         \* position of each request's worker
    phase,      \* "direct": download of the request's url, "rawg": of the API's
    cur,        \* url the worker's _try_download is reading
    fh,         \* inode of the worker's open temporary file, 0 if none
    pos,        \* number of chunks written through fh
    dir,        \* directory: path -> inode
    inodes,     \* content of every inode ever created
    delivered,  \* per request: paths of the image_ready events emitted for it
    gets,       \* per request: HTTP GETs of cover urls
    rawgq,      \* per request: queries to the metadata API
    exc,        \* per request: exception that escaped the worker, or "none";
                \* "ShapeError" stands for the AttributeError, KeyError,
                \* TypeError or ValueError of lines 134-138
    pf,         \* one call of _local_path_for (SpecPath)
    fe,         \* a filesystem and two calls of find_emulator on it (SpecEmu)
    nlaunch,    \* number of launch_and_watch calls made so far
    launch,     \* per call: its inputs, its result, its process and watcher
    conf,       \* the config file and the last load_config call (SpecConfig)
    gm          \* the game files and one call of scan_roms (SpecGames)

\* the variables of ImageFetcher, of the launcher and of the config module
fetchVars == <<cfg, api_key, nreq, req, threads, pc, phase, cur, fh, pos, dir,
               inodes, delivered, gets, rawgq, exc>>
launchVars == <<nlaunch, launch>>
otherVars == <<fe, launchVars, conf, gm>>

vars == <<fetchVars, pf, otherVars>>

NoReq == [key |-> <<>>, url |-> None, local_path |-> <<>>]

\* inode numbers: every destination and every temporary path can name one,
\* and every worker can hold one more open that no path names any longer
InodeIds == 1..(2 * Cardinality({g.key : g \in Games}) + MaxReq)

Exists(d, p) == p \in DOMAIN d

\* __init__ (lines 32-42): covers_dir is created empty, the key is stripped
InitFetcher ==
    /\ cfg \in [rawg_api_key : RawApiKeys]
    /\ api_key = Strip(cfg.rawg_api_key)
    /\ nreq = 0
    /\ req = [r \in Reqs |-> NoReq]
    /\ threads = {}
    /\ pc = [r \in Reqs |-> "idle"]
    /\ phase = [r \in Reqs |-> "direct"]
    /\ cur = [r \in Reqs |-> None]
    /\ fh = [r \in Reqs |-> 0]
    /\ pos = [r \in Reqs |-> 0]
    /\ dir = <<>>
    /\ inodes = [i \in InodeIds |-> <<>>]
    /\ delivered = [r \in Reqs |-> <<>>]
    /\ gets = [r \in Reqs |-> 0]
    /\ rawgq = [r \in Reqs |-> 0]
    /\ exc = [r \in Reqs |-> "none"]

NoPf == [key |-> <<>>, path |-> <<>>, called |-> FALSE]

\* nothing of the launcher or of the config module has run
NoFe == [called |-> <<FALSE, FALSE>>]
NoConf == [loaded |-> FALSE]
NoLaunches == <<>>
NoGm == [returned |-> FALSE]

InitOther ==
    /\ fe = NoFe
    /\ nlaunch = 0
    /\ launch = NoLaunches
    /\ conf = NoConf
    /\ gm = NoGm

Init == InitFetcher /\ pf = NoPf /\ InitOther

\* -------------------------------------------------------------- filesystem
DirSet(d, p, i) == [q \in (DOMAIN d) \cup {p} |-> IF q = p THEN i ELSE d[q]]
DirDel(d, p) == [q \in (DOMAIN d) \ {p} |-> d[q]]

\* file.write(chunk) at offset at (in chunks) of a file holding content c;
\* a write past the end leaves a hole of zeros
WriteAt(c, at, chunk) ==
    [i \in 1..(IF at + 1 > Len(c) THEN at + 1 ELSE Len(c)) |->
        IF i = at + 1 THEN chunk
        ELSE IF i <= Len(c) THEN c[i] ELSE 0]

\* inodes in use: named by a path or held open by a worker
InUse(d, h) == {d[q] : q \in DOMAIN d} \cup {h[r] : r \in Reqs}

\* the filesystem frees an inode once no path names it and no handle holds
\* it, and hands out the lowest free number for a new file
Reclaim(d, h, c) == [i \in InodeIds |-> IF i \in InUse(d, h) THEN c[i] ELSE <<>>]
FreeInode(d, h) ==
    CHOOSE i \in InodeIds \ InUse(d, h) :
        \A j \in InodeIds \ InUse(d, h) : i <= j

\* os.replace(src, dst) on the directory: one atomic step that makes dst
\* name src's inode; with src missing it raises and changes nothing
OsReplaceUnlinkFirst(d, src, dst) ==
    IF Exists(d, src) THEN DirSet(DirDel(d, src), dst, d[src])
    ELSE DirDel(d, dst)

OsReplaceLosesFile(d, src, dst) ==
    IF Exists(d, src) THEN DirDel(d, src) ELSE d

OsReplace(d, src, dst) ==
    IF Exists(d, src) THEN DirSet(DirDel(d, src), dst, d[src])
    ELSE d

\* os.path.exists(local_path) of line 51
CacheHitNever(d, local_path) == FALSE

CacheHit(d, local_path) == Exists(d, local_path)

\* content of the file at path p
Content(p) == inodes[dir[p]]

\* ------------------------------------------------------- worker plumbing
\* self.image_ready.emit(key, path) for request r, whose key is req[r].key
Emit(r, path) == delivered' = [delivered EXCEPT ![r] = Append(@, path)]

\* the file is closed and the locals of _try_download are dead
DropLocals(r) ==
    /\ cur' = [cur EXCEPT ![r] = None]
    /\ fh' = [fh EXCEPT ![r] = 0]
    /\ pos' = [pos EXCEPT ![r] = 0]

\* line 90
EmitFail(r) ==
    /\ Emit(r, <<>>)
    /\ pc' = [pc EXCEPT ![r] = "done"]
    /\ phase' = [phase EXCEPT ![r] = "direct"]

\* line 84: `if self.api_key and ...`, else line 90
Line84(r) ==
    IF api_key # <<>>
    THEN /\ pc' = [pc EXCEPT ![r] = "rawg_get"]
         /\ phase' = [phase EXCEPT ![r] = "rawg"]
         /\ UNCHANGED delivered
    ELSE EmitFail(r)

\* _try_download returned False (line 118): back in _worker at line 84, or
\* back in _try_fetch_from_rawg at line 140 which returns False to line 84
ReturnFalse(r) ==
    /\ IF phase[r] = "direct" THEN Line84(r) ELSE EmitFail(r)
    /\ DropLocals(r)

\* an exception that no handler catches ends the thread with no emission
Escape(r, e) ==
    /\ pc' = [pc EXCEPT ![r] = "crashed"]
    /\ exc' = [exc EXCEPT ![r] = e]
    /\ phase' = [phase EXCEPT ![r] = "direct"]
    /\ DropLocals(r)
    /\ UNCHANGED delivered

\* ------------------------------------------------------------------ fetch
\* ImageFetcher.fetch (lines 45-62), called on the GUI thread
Fetch(r, key, url) ==
    /\ r = nreq + 1
    /\ r <= MaxReq
    /\ nreq' = r
    /\ LET lp == local_path_for(key)
       IN /\ req' = [req EXCEPT ![r] = [key |-> key, url |-> url, local_path |-> lp]]
          /\ IF CacheHit(dir, lp)
             THEN /\ Emit(r, lp)
                  /\ pc' = [pc EXCEPT ![r] = "done"]
                  /\ UNCHANGED threads
             ELSE /\ threads' = threads \cup {r}
                  /\ pc' = [pc EXCEPT ![r] = "start"]
                  /\ UNCHANGED delivered
    /\ UNCHANGED <<cfg, api_key, phase, cur, fh, pos, dir, inodes, gets, rawgq,
                   exc, pf, otherVars>>

\* _worker line 78, `if url and ...`
WorkerBegin(r) ==
    /\ pc[r] = "start"
    /\ IF UrlTruthy(req[r].url)
       THEN /\ pc' = [pc EXCEPT ![r] = "dl_get"]
            /\ cur' = [cur EXCEPT ![r] = req[r].url]
            /\ UNCHANGED <<phase, delivered>>
       ELSE /\ Line84(r)
            /\ UNCHANGED cur
    /\ UNCHANGED <<cfg, api_key, nreq, req, threads, fh, pos, dir, inodes, gets,
                   rawgq, exc, pf, otherVars>>

\* ---------------------------------------------------------- _try_download
\* lines 97-99: requests.get raises (connection error, timeout) or
\* raise_for_status raises HTTPError; both are RequestException
DlGetFail(r) ==
    /\ pc[r] = "dl_get"
    /\ gets' = [gets EXCEPT ![r] = @ + 1]
    /\ ReturnFalse(r)
    /\ UNCHANGED <<cfg, api_key, nreq, req, threads, dir, inodes, rawgq, exc, pf, otherVars>>

\* lines 97-99 with a 2xx answer
DlGetOk(r) ==
    /\ pc[r] = "dl_get"
    /\ gets' = [gets EXCEPT ![r] = @ + 1]
    /\ pc' = [pc EXCEPT ![r] = "dl_open"]
    /\ UNCHANGED <<cfg, api_key, nreq, req, threads, phase, cur, fh, pos, dir,
                   inodes, delivered, rawgq, exc, pf, otherVars>>

\* line 104: open(tmp_path, "wb") creates the file or truncates the one
\* there; with an empty body the loop of 106 does not run and the file is
\* closed at once
DlOpen(r) ==
    /\ pc[r] = "dl_open"
    /\ LET tmp == TmpPathOf(req[r].local_path)
           ino == IF Exists(dir, tmp) THEN dir[tmp] ELSE FreeInode(dir, fh)
       IN /\ dir' = DirSet(dir, tmp, ino)
          /\ inodes' = [inodes EXCEPT ![ino] = <<>>]
          /\ IF ServerBody(cur[r]) = <<>>
             THEN /\ pc' = [pc EXCEPT ![r] = "dl_replace"]
                  /\ DropLocals(r)
             ELSE /\ pc' = [pc EXCEPT ![r] = "dl_write"]
                  /\ fh' = [fh EXCEPT ![r] = ino]
                  /\ pos' = [pos EXCEPT ![r] = 0]
                  /\ UNCHANGED cur
    /\ UNCHANGED <<cfg, api_key, nreq, req, threads, phase, delivered, gets,
                   rawgq, exc, pf, otherVars>>

\* line 104 raising OSError, which `except RequestException` does not catch
DlOpenFail(r) ==
    /\ pc[r] = "dl_open"
    /\ Escape(r, "OSError")
    /\ UNCHANGED <<cfg, api_key, nreq, req, threads, dir, inodes, gets, rawgq, pf, otherVars>>

\* lines 106-107: one chunk of the body goes to the handle's inode; after
\* the last one the with block closes the file
DlWrite(r) ==
    /\ pc[r] = "dl_write"
    /\ LET body == ServerBody(cur[r])
           written == [inodes EXCEPT ![fh[r]] = WriteAt(@, pos[r], body[pos[r] + 1])]
       IN IF pos[r] + 1 = Len(body)
          THEN /\ pc' = [pc EXCEPT ![r] = "dl_replace"]
               /\ DropLocals(r)
               /\ inodes' = Reclaim(dir, fh', written)
          ELSE /\ pos' = [pos EXCEPT ![r] = @ + 1]
               /\ inodes' = written
               /\ UNCHANGED <<pc, cur, fh>>
    /\ UNCHANGED <<cfg, api_key, nreq, req, threads, phase, dir,
                   delivered, gets, rawgq, exc, pf, otherVars>>

\* line 106: iter_content raises a RequestException in mid-stream; the
\* handler returns False and the temporary file stays where it is
DlStreamFail(r) ==
    /\ pc[r] = "dl_write"
    /\ ReturnFalse(r)
    /\ inodes' = Reclaim(dir, fh', inodes)
    /\ UNCHANGED <<cfg, api_key, nreq, req, threads, dir, gets, rawgq, exc, pf, otherVars>>

\* line 107: f.write raises OSError (disk full), not caught
DlWriteFail(r) ==
    /\ pc[r] = "dl_write"
    /\ Escape(r, "OSError")
    /\ inodes' = Reclaim(dir, fh', inodes)
    /\ UNCHANGED <<cfg, api_key, nreq, req, threads, dir, gets, rawgq, pf, otherVars>>

\* lines 110-112 and 80-81 / 86-87: the rename, then image_ready(key, path);
\* with the temporary file gone os.replace raises FileNotFoundError
DlReplace(r) ==
    /\ pc[r] = "dl_replace"
    /\ LET lp == req[r].local_path
           tmp == TmpPathOf(lp)
       IN /\ dir' = OsReplace(dir, tmp, lp)
          /\ IF Exists(dir, tmp)
             THEN /\ Emit(r, lp)
                  /\ pc' = [pc EXCEPT ![r] = "done"]
                  /\ phase' = [phase EXCEPT ![r] = "direct"]
                  /\ DropLocals(r)
                  /\ UNCHANGED exc
             ELSE Escape(r, "FileNotFoundError")
    /\ inodes' = Reclaim(dir', fh', inodes)
    /\ UNCHANGED <<cfg, api_key, nreq, req, threads, gets, rawgq, pf, otherVars>>

\* line 110 raising another OSError (destination locked, permission)
DlReplaceFail(r) ==
    /\ pc[r] = "dl_replace"
    /\ Escape(r, "OSError")
    /\ UNCHANGED <<cfg, api_key, nreq, req, threads, dir, inodes, gets, rawgq, pf, otherVars>>

\* --------------------------------------------------- _try_fetch_from_rawg
\* JSON values as Python sees them after response.json()
JNull == [t |-> "null"]
JStr(x) == [t |-> "str", s |-> x]
JNum(n) == [t |-> "num", n |-> n]
JList(xs) == [t |-> "list", xs |-> xs]
JObj(f) == [t |-> "obj", f |-> f]

\* bodies the metadata API can answer with (status 200, valid JSON)
RawgResponses ==
    [ ok            |-> JObj([results |-> JList(<<JObj([background_image |-> JStr("u1")])>>)]),
      missing       |-> JObj([count |-> JNum(0)]),
      null_results  |-> JObj([results |-> JNull]),
      empty_list    |-> JObj([results |-> JList(<<>>)]),
      no_image      |-> JObj([results |-> JList(<<JObj([name |-> JStr("x")])>>)]),
      null_image    |-> JObj([results |-> JList(<<JObj([background_image |-> JNull])>>)]),
      results_dict  |-> JObj([results |-> JObj([detail |-> JStr("x")])]),
      results_str   |-> JObj([results |-> JStr("x")]),
      results_num   |-> JObj([results |-> JNum(5)]),
      first_str     |-> JObj([results |-> JList(<<JStr("x")>>)]),
      first_null    |-> JObj([results |-> JList(<<JNull>>)]),
      top_list      |-> JList(<<>>) ]

\* bool(v)
PyTruthy(v) ==
    CASE v.t = "null" -> FALSE
      [] v.t = "str"  -> v.s # ""
      [] v.t = "num"  -> v.n # 0
      [] v.t = "list" -> v.xs # <<>>
      [] v.t = "obj"  -> DOMAIN v.f # {}

Val(v) == [ok |-> TRUE, v |-> v, exc |-> "none"]
Raise(e) == [ok |-> FALSE, v |-> JNull, exc |-> e]

\* v.get(k): only a dict has .get
PyGet(v, k) ==
    IF v.t = "obj"
    THEN Val(IF k \in DOMAIN v.f THEN v.f[k] ELSE JNull)
    ELSE Raise("AttributeError")

\* v[0]
PyIndex0(v) ==
    CASE v.t = "list" -> IF v.xs = <<>> THEN Raise("IndexError") ELSE Val(v.xs[1])
      [] v.t = "str"  -> IF v.s = "" THEN Raise("IndexError") ELSE Val(v)
      [] v.t = "obj"  -> Raise("KeyError")
      [] v.t = "num"  -> Raise("TypeError")
      [] v.t = "null" -> Raise("TypeError")

\* lines 134-140 on the parsed body: the url to download, no url, or the
\* exception the expression raises
ParseRawg(top) ==
    LET data == PyGet(top, "results")
    IN IF ~data.ok THEN data
       ELSE IF ~PyTruthy(data.v) THEN Val(JNull)
       ELSE LET first == PyIndex0(data.v)
            IN IF ~first.ok THEN first
               ELSE LET img == PyGet(first.v, "background_image")
                    IN IF ~img.ok THEN img
                       ELSE IF PyTruthy(img.v) THEN img ELSE Val(JNull)

\* lines 129-131 raising a RequestException: caught at 143, returns False
RawgGetFail(r) ==
    /\ pc[r] = "rawg_get"
    /\ rawgq' = [rawgq EXCEPT ![r] = @ + 1]
    /\ EmitFail(r)
    /\ UNCHANGED <<cfg, api_key, nreq, req, threads, cur, fh, pos, dir, inodes,
                   gets, exc, pf, otherVars>>

\* line 134 on a body that is not JSON: response.json() raises
\* requests.exceptions.JSONDecodeError, a RequestException since requests
\* 2.27 (caught) and a plain ValueError before (not caught)
RawgGetNotJson(r, caught) ==
    /\ pc[r] = "rawg_get"
    /\ rawgq' = [rawgq EXCEPT ![r] = @ + 1]
    /\ IF caught
       THEN EmitFail(r) /\ UNCHANGED <<exc, cur, fh, pos>>
       ELSE Escape(r, "ShapeError")
    /\ UNCHANGED <<cfg, api_key, nreq, req, threads, dir, inodes, gets, pf, otherVars>>

\* lines 129-140 with a 200 answer carrying the JSON body RawgResponses[n]
RawgGetOk(r, n) ==
    /\ pc[r] = "rawg_get"
    /\ rawgq' = [rawgq EXCEPT ![r] = @ + 1]
    /\ LET res == ParseRawg(RawgResponses[n])
       IN IF ~res.ok
          THEN Escape(r, "ShapeError")
          ELSE IF res.v.t = "null"
          THEN EmitFail(r) /\ UNCHANGED <<exc, cur, fh, pos>>
          ELSE /\ pc' = [pc EXCEPT ![r] = "dl_get"]
               /\ cur' = [cur EXCEPT ![r] = res.v.s]
               /\ UNCHANGED <<phase, delivered, exc, fh, pos>>
    /\ UNCHANGED <<cfg, api_key, nreq, req, threads, dir, inodes, gets, pf, otherVars>>

\* ---------------------------------------------------------- specification
Next ==
    \/ \E g \in Games : Fetch(nreq + 1, g.key, g.url)
    \/ \E r \in Reqs : WorkerBegin(r)
    \/ \E r \in Reqs : DlGetFail(r)
    \/ \E r \in Reqs : DlGetOk(r)
    \/ \E r \in Reqs : DlOpen(r)
    \/ \E r \in Reqs : DlOpenFail(r)
    \/ \E r \in Reqs : DlWrite(r)
    \/ \E r \in Reqs : DlStreamFail(r)
    \/ \E r \in Reqs : DlWriteFail(r)
    \/ \E r \in Reqs : DlReplace(r)
    \/ \E r \in Reqs : DlReplaceFail(r)
    \/ \E r \in Reqs : RawgGetFail(r)
    \/ \E r \in Reqs, c \in BOOLEAN : RawgGetNotJson(r, c)
    \/ \E r \in Reqs, n \in DOMAIN RawgResponses : RawgGetOk(r, n)

Spec == Init /\ [][Next]_vars

\* one call of _local_path_for on a key drawn from AllKeys
InitPath ==
    /\ InitFetcher
    /\ pf \in [key : AllKeys, path : {<<>>}, called : {FALSE}]
    /\ InitOther

CallLocalPathFor ==
    /\ ~pf.called
    /\ pf' = [pf EXCEPT !.path = local_path_for(pf.key), !.called = TRUE]
    /\ UNCHANGED <<cfg, api_key, nreq, req, threads, pc, phase, cur, fh, pos,
                   dir, inodes, delivered, gets, rawgq, exc, otherVars>>

NextPath == CallLocalPathFor

SpecPath == InitPath /\ [][NextPath]_vars

\* ------------------------------------------------------------------ claims
Terminal(r) == pc[r] \in {"done", "crashed"}
Issued(r) == r <= nreq
Racing(r1, r2) ==
    /\ r1 # r2 /\ r1 \in threads /\ r2 \in threads
    /\ req[r1].key = req[r2].key

\* C9 as written: the path is covers_dir/<key with every character outside
\* [A-Za-z0-9_.-] replaced by "_">.png
C9_AsciiClass ==
    pf.called =>
        LET n == Len(pf.key)
            pre == Len(covers_dir) + 1
        IN /\ Len(pf.path) = pre + n + 4
           /\ SubSeq(pf.path, 1, pre) = covers_dir \o <<"/">>
           /\ \A i \in 1..n :
                pf.path[pre + i] =
                    IF pf.key[i] \in AsciiAlnum \cup {"_", "-", "."}
                    THEN pf.key[i] ELSE "_"
           /\ SubSeq(pf.path, pre + n + 1, pre + n + 4) = PngExt

\* C9 amended: the path is covers_dir/<key with every character that is
\* neither a letter or digit of any script (str.isalnum) nor one of "_",
\* "-", "." replaced by "_">.png
C9_PathFor ==
    pf.called =>
        LET n == Len(pf.key)
            pre == Len(covers_dir) + 1
        IN /\ Len(pf.path) = pre + n + 4
           /\ SubSeq(pf.path, 1, pre) = covers_dir \o <<"/">>
           /\ \A i \in 1..n :
                pf.path[pre + i] =
                    IF pf.key[i] \in AsciiAlnum \cup UnicodeAlnum \cup {"_", "-", "."}
                    THEN pf.key[i] ELSE "_"
           /\ SubSeq(pf.path, pre + n + 1, pre + n + 4) = PngExt

C9_Witness ==
    /\ pf.called
    /\ \E i \in 1..Len(pf.key) : pf.key[i] \in UnicodeAlnum
    /\ \E i \in 1..Len(pf.key) : pf.key[i] = ":"
    /\ \E i \in 1..Len(pf.key) : pf.key[i] = "a"

\* C1: every fetch call gets exactly one image_ready event: never two, and a
\* call whose fetch or worker has ended has got one
C1_ExactlyOne ==
    \A r \in Reqs :
        /\ Len(delivered[r]) <= 1
        /\ (Issued(r) /\ Terminal(r)) => Len(delivered[r]) = 1

\* bodies of finished downloads
CompleteBodies == {ServerBody(g.url) : g \in Games} \cup {ServerBody("u1")}

\* C2: a file that exists at a destination path holds the complete body of
\* one download
C2_NoPartialFile ==
    \A r \in Reqs :
        (Issued(r) /\ Exists(dir, req[r].local_path))
            => Content(req[r].local_path) \in CompleteBodies

\* positions inside _try_download
DlSteps == {"dl_get", "dl_open", "dl_write", "dl_replace"}

\* C3: two workers started for the same uncached key both get a result once
\* they have ended (no disk failure and no malformed API answer assumed),
\* and when both results carry a path it is the same path of an existing file
C3_BothServed ==
    \A r1, r2 \in Reqs :
        (/\ Racing(r1, r2) /\ Terminal(r1) /\ Terminal(r2)
         /\ exc[r1] \in {"none", "FileNotFoundError"}
         /\ exc[r2] \in {"none", "FileNotFoundError"}) =>
            /\ Len(delivered[r1]) = 1 /\ Len(delivered[r2]) = 1
            /\ (delivered[r1] # <<<<>>>> /\ delivered[r2] # <<<<>>>>)
                 => /\ delivered[r1] = <<req[r1].local_path>>
                    /\ delivered[r2] = delivered[r1]
                    /\ Exists(dir, req[r1].local_path)

\* C4: a download step that ends without success never ends the worker
\* with an escaped exception, and when it ends the worker it does so with
\* image_ready(key, "")
C4_ErrorsCaught ==
    [][\A r \in Reqs :
          (/\ pc[r] \in DlSteps /\ pc'[r] \notin DlSteps
           /\ delivered'[r] # <<req[r].local_path>>)
            => /\ pc'[r] # "crashed"
               /\ pc'[r] = "done" => delivered'[r] = <<<<>>>>
      ]_vars

\* C5: a fetch call that finds the cache file of its key delivers
\* image_ready(key, cached path) within the call, starts no thread and makes
\* no network request, then or later
C5_CacheHitSync ==
    [][\A r \in Reqs :
          /\ (nreq = r - 1 /\ nreq' = r /\ Exists(dir, req'[r].local_path))
               => /\ delivered'[r] = <<req'[r].local_path>>
                  /\ pc'[r] = "done"
                  /\ threads' = threads
                  /\ gets' = gets /\ rawgq' = rawgq
          /\ (r <= nreq' /\ r \notin threads')
               => gets'[r] = 0 /\ rawgq'[r] = 0 /\ Len(delivered'[r]) = 1
      ]_vars

C5_Witness ==
    \E r \in Reqs :
        /\ Issued(r) /\ r \notin threads
        /\ delivered[r] = <<req[r].local_path>>
        /\ \E q \in threads : req[q].key = req[r].key /\ gets[q] > 0

\* C6: when the download of the request's own url succeeds, the file then at
\* the destination is non-empty and the metadata API has not been queried
C6_DirectSuccess ==
    [][\A r \in Reqs :
          (pc[r] = "dl_replace" /\ phase[r] = "direct" /\ pc'[r] = "done")
            => /\ Exists(dir', req[r].local_path)
               /\ inodes'[dir'[req[r].local_path]] # <<>>
               /\ rawgq'[r] = 0
      ]_vars

Malformed == DOMAIN RawgResponses \ {"ok"}

\* C8: a malformed answer of the metadata API ends in image_ready(key, "")
C8_MalformedResolved ==
    [][\A r \in Reqs : \A n \in Malformed :
          RawgGetOk(r, n) => pc'[r] = "done" /\ delivered'[r] = <<<<>>>>
      ]_vars

\* C10 as written: a cache file that exists keeps existing with the same
\* content
C10_NeverMutated ==
    [][\A r \in Reqs :
          (Issued(r) /\ Exists(dir, req[r].local_path))
            => /\ Exists(dir', req[r].local_path)
               /\ inodes'[dir'[req[r].local_path]] = Content(req[r].local_path)
      ]_vars

\* C10 amended: a cache file that exists is never removed
C10_NeverRemoved ==
    [][\A r \in Reqs :
          (Issued(r) /\ Exists(dir, req[r].local_path))
            => Exists(dir', req[r].local_path)
      ]_vars

\* a rename has found its temporary file gone while the cache file exists
C10_Witness ==
    \E r \in Reqs :
        /\ exc[r] = "FileNotFoundError"
        /\ Exists(dir, req[r].local_path)

\* ============================================================ find_emulator
\* at most this many entries in the emulators directory
MaxEntries == 2

\* str.lower on the characters that occur in the names below
LowerChar(c) ==
    CASE c = "N" -> "n"
      [] c = "E" -> "e"
      [] c = "S" -> "s"
      [] c = "X" -> "x"
      [] OTHER -> c

Lower(s) == [i \in 1..Len(s) |-> LowerChar(s[i])]

\* sub in s, for strings
Contains(sub, s) ==
    \E i \in 0..(Len(s) - Len(sub)) : SubSeq(s, i + 1, i + Len(sub)) = sub

EndsWith(s, suf) ==
    /\ Len(s) >= Len(suf)
    /\ SubSeq(s, Len(s) - Len(suf) + 1, Len(s)) = suf

em_dir == <<"e", "m", "u", "l", "a", "t", "o", "r", "s">>
ExeExt == <<".", "e", "x", "e">>

Consoles == {<<"N">>}

\* names an entry of the emulators directory can have: two that hold the
\* console name, two that do not; three with the executable extension
EntryNames ==
    { <<"n", "e", "s">>,
      <<"N", "E", "S", ".", "e", "x", "e">>,
      <<"s", "9", ".", "E", "X", "E">>,
      <<"v", "b", "a", ".", "e", "x", "e">> }

\* a directory entry is a regular file or a subdirectory
Entries == [name : EntryNames, kind : {"file", "dir"}]

\* the orders in which os.listdir can enumerate the entries S
Listings(S) ==
    {l \in [1..Cardinality(S) -> S] : \A i, j \in 1..Cardinality(S) :
                                          l[i] = l[j] => i = j}

\* the contents an emulators directory can have: no two entries of one name
Contents ==
    {S \in SUBSET Entries :
        /\ Cardinality(S) <= MaxEntries
        /\ \A a, b \in S : a.name = b.name => a = b}

\* the path the configuration holds for the console: none, or a path
\* outside the emulators directory
ConfiguredPaths == {None, <<"e", "m", "u", "/", "n">>}

Returned(path, n) == [kind |-> "path", path |-> path, exc |-> "none", listed |-> n]
ReturnedNone(n) == [kind |-> "None", path |-> <<>>, exc |-> "none", listed |-> n]
Raised(e, n) == [kind |-> "raise", path |-> <<>>, exc |-> e, listed |-> n]
NotCalled == [kind |-> "pending", path |-> <<>>, exc |-> "none", listed |-> 0]

\* if em and os.path.exists(em)
ConfiguredNever(em, emExists) == FALSE
ConfiguredWins(em, emExists) == em # None /\ em # <<>> /\ emExists

\* console.lower() in file.lower(), then os.path.isfile(candidate)
ConsoleMatch(console, e) ==
    /\ Contains(Lower(console), Lower(e.name))
    /\ e.kind = "file"

\* f.lower().endswith(".exe") on the joined path
IsExe(e) == EndsWith(Lower(OsPathJoin(em_dir, e.name)), ExeExt)

\* len(exes) == 1
AnyExe(exes) == Len(exes) >= 1
OnlyOneExe(exes) == Len(exes) = 1

\* the fallback: the second os.listdir, with FileNotFoundError caught
Fallback(kind, listing, n) ==
    CASE kind = "absent" -> ReturnedNone(n + 1)
      [] kind = "file" -> Raised("NotADirectoryError", n + 1)
      [] OTHER ->
           LET exes == SelectSeq(listing, IsExe)
           IN IF OnlyOneExe(exes)
              THEN Returned(OsPathJoin(em_dir, exes[1].name), n + 1)
              ELSE ReturnedNone(n + 1)

\* find_emulator(cfg, console) on a filesystem where the configured path
\* exists or not, the emulators path is absent, a file or a directory, and
\* os.listdir enumerates the directory as listing
find_emulator(em, emExists, kind, listing, console) ==
    IF ConfiguredWins(em, emExists) THEN Returned(em, 0)
    ELSE IF kind = "dir"
         THEN LET m == SelectSeq(listing, LAMBDA e : ConsoleMatch(console, e))
              IN IF m # <<>> THEN Returned(OsPathJoin(em_dir, m[1].name), 1)
                 ELSE Fallback(kind, listing, 1)
         ELSE Fallback(kind, listing, 0)

\* a filesystem, a configuration and a console; two calls are made on them,
\* and os.listdir may enumerate the directory differently for each
InitEmu ==
    /\ InitFetcher
    /\ pf = NoPf
    /\ nlaunch = 0 /\ launch = NoLaunches /\ conf = NoConf /\ gm = NoGm
    /\ \E em \in ConfiguredPaths, ex \in BOOLEAN, console \in Consoles,
          k \in {"absent", "file", "dir"}, S \in Contents :
          \E l1, l2 \in Listings(S) :
             /\ em = None => ~ex
             /\ k # "dir" => S = {}
             /\ fe = [em |-> em, emExists |-> ex, console |-> console,
                      kind |-> k, entries |-> S, listing |-> <<l1, l2>>,
                      called |-> <<FALSE, FALSE>>,
                      res |-> <<NotCalled, NotCalled>>]

CallFindEmulator(i) ==
    /\ ~fe.called[i]
    /\ fe' = [fe EXCEPT !.called[i] = TRUE,
                        !.res[i] = find_emulator(fe.em, fe.emExists, fe.kind,
                                                 fe.listing[i], fe.console)]
    /\ UNCHANGED <<fetchVars, pf, launchVars, conf, gm>>

NextEmu == \E i \in {1, 2} : CallFindEmulator(i)

SpecEmu == InitEmu /\ [][NextEmu]_vars

\* ---------------------------------------------------- claims: find_emulator
\* the regular files of the directory that hold the console name
Matching == {e \in fe.entries : ConsoleMatch(fe.console, e)}

\* C11: when the configured path exists, find_emulator returns it and has
\* not listed the emulators directory, whatever the directory holds
C11_ConfiguredFirst ==
    \A i \in {1, 2} :
        (fe.called[i] /\ fe.em # None /\ fe.emExists)
          => /\ fe.res[i].kind = "path"
             /\ fe.res[i].path = fe.em
             /\ fe.res[i].listed = 0

\* the configured path exists while a regular file of the directory holds
\* the console name
C11_Witness ==
    /\ fe.called[1]
    /\ fe.em # None /\ fe.emExists
    /\ fe.kind = "dir" /\ Matching # {}
    /\ fe.res[1].path = fe.em

\* the configured path is used
ConfiguredExists == fe.em # None /\ fe.emExists

\* C12: find_emulator never raises, whatever the emulators path is
C12_NeverRaises ==
    \A i \in {1, 2} : fe.called[i] => fe.res[i].kind # "raise"

\* the regular files of the directory that have the executable extension
ExeFiles == {e \in fe.entries : e.kind = "file" /\ IsExe(e)}

\* C13: with no configured path that exists and no regular file holding the
\* console name, find_emulator returns a path exactly when the directory
\* holds exactly one file with the executable extension, and it is that file
C13_SingleExeFile ==
    \A i \in {1, 2} :
        (fe.called[i] /\ ~ConfiguredExists /\ fe.kind = "dir" /\ Matching = {})
          => /\ (fe.res[i].kind = "path") <=> (Cardinality(ExeFiles) = 1)
             /\ fe.res[i].kind = "path"
                  => \E e \in ExeFiles : fe.res[i].path = OsPathJoin(em_dir, e.name)

SameResult(a, b) == a.kind = b.kind /\ a.path = b.path /\ a.exc = b.exc

\* C20 as written: two calls on the same configuration, console and set of
\* directory entries give the same result whatever the listing orders
C20_OrderIndependent ==
    (fe.called[1] /\ fe.called[2]) => SameResult(fe.res[1], fe.res[2])

\* C20 amended: the two calls give the same result when the listing orders
\* are the same, or the configured path exists, or at most one regular file
\* holds the console name; when some do and the configured path does not
\* exist, each call returns the one its own listing enumerates first
C20_FirstListedWins ==
    /\ (/\ fe.called[1] /\ fe.called[2]
        /\ \/ fe.listing[1] = fe.listing[2]
           \/ ConfiguredExists
           \/ Cardinality(Matching) <= 1)
         => SameResult(fe.res[1], fe.res[2])
    /\ \A i \in {1, 2} :
         (fe.called[i] /\ ~ConfiguredExists /\ fe.kind = "dir" /\ Matching # {})
           => \E k \in 1..Len(fe.listing[i]) :
                 /\ fe.listing[i][k] \in Matching
                 /\ \A j \in 1..(k - 1) : fe.listing[i][j] \notin Matching
                 /\ fe.res[i].kind = "path"
                 /\ fe.res[i].path = OsPathJoin(em_dir, fe.listing[i][k].name)

\* two calls that saw the directory in different orders, with one regular
\* file holding the console name, have returned it
C20_Witness ==
    /\ fe.called[1] /\ fe.called[2]
    /\ ~ConfiguredExists
    /\ fe.listing[1] # fe.listing[2]
    /\ Cardinality(Matching) = 1
    /\ fe.res[1].kind = "path" /\ fe.res[2].kind = "path"
    /\ fe.listing[1][1] \notin Matching

\* ========================================================= launch_and_watch
\* at most this many calls of launch_and_watch
MaxLaunch == 2

Launches == 1..MaxLaunch

emulator == "emulators/nes.exe"
rom_path == "roms/NES/game.nes"

\* return codes of Popen.wait: a normal exit, an error exit, a kill by signal
ExitCodes == {0, 1, -9}

\* the OSError subprocess.Popen can raise
OsErrors ==
    { [errno |-> 8, strerror |-> "Exec format error", filename |-> emulator],
      [errno |-> 13, strerror |-> "Permission denied", filename |-> emulator] }

\* subprocess.Popen has started the process
Spawned == [errno |-> 0, strerror |-> "", filename |-> ""]

\* str of the error numbers above
StrInt(n) == CASE n = 8 -> "8" [] n = 13 -> "13" [] OTHER -> "?"

\* str(e) of an OSError with a file name: [Errno N] strerror: 'filename'
StrErrnoOnly(e) == <<StrInt(e.errno)>>
StrOSError(e) ==
    <<"[Errno ", StrInt(e.errno), "] ", e.strerror, ": '", e.filename, "'">>

NoDialog == [title |-> "", text |-> <<>>]

\* QMessageBox.critical(parent, title, text)
Critical(title, text) == [title |-> title, text |-> text]

IdleLaunch ==
    [pcl |-> "idle", emExists |-> FALSE, romExists |-> FALSE,
     on_exit |-> "None", ret |-> "pending", dialog |-> NoDialog,
     proc |-> "none", code |-> <<>>, watcher |-> "none", calls |-> <<>>]

\* not os.path.exists(rom_path)
RomMissingNever(romExists) == FALSE
RomMissing(romExists) == ~romExists

\* a call that fails returns None after its dialog
ReturnNone(l, dialog) ==
    [l EXCEPT !.pcl = "returned", !.ret = "None", !.dialog = dialog]

\* the calls of launch_and_watch that have to end before call i can go on:
\* none, each watcher has a thread of its own
WaitsForWatchers(ls, i) == {j \in Launches : ls[j].watcher = "waiting"}
WaitsFor(ls, i) == {}

\* launch_and_watch up to and including subprocess.Popen; the calls are
\* made one after the other by the GUI thread
LwCall(i, emExists, romExists, on_exit, popen) ==
    /\ i = nlaunch + 1 /\ i \in Launches
    /\ \A j \in Launches : launch[j].pcl # "spawned"
    /\ WaitsFor(launch, i) = {}
    /\ nlaunch' = i
    /\ LET l == [launch[i] EXCEPT !.emExists = emExists,
                                  !.romExists = romExists,
                                  !.on_exit = on_exit]
       IN launch' = [launch EXCEPT ![i] =
            IF ~emExists
            THEN ReturnNone(l, Critical("Emulator Missing",
                                        <<"Emulator not found:\n", emulator>>))
            ELSE IF RomMissing(romExists)
            THEN ReturnNone(l, Critical("ROM Missing",
                                        <<"ROM file not found:\n", rom_path>>))
            ELSE IF popen \in OsErrors
            THEN ReturnNone(l, Critical("Launch Failed", StrOSError(popen)))
            ELSE [l EXCEPT !.pcl = "spawned", !.proc = "running"]]
    /\ UNCHANGED <<fetchVars, pf, fe, conf, gm>>

\* threading.Thread(target=watcher, args=(proc,), daemon=True).start() and
\* return proc
LwReturn(i) ==
    /\ launch[i].pcl = "spawned"
    /\ WaitsFor(launch, i) = {}
    /\ launch' = [launch EXCEPT ![i].pcl = "returned", ![i].ret = "proc",
                                ![i].watcher = "waiting"]
    /\ UNCHANGED <<fetchVars, pf, fe, conf, gm, nlaunch>>

\* the emulator process ends, by itself or by a signal
ProcExit(i, code) ==
    /\ launch[i].proc = "running"
    /\ launch' = [launch EXCEPT ![i].proc = "exited", ![i].code = <<code>>]
    /\ UNCHANGED <<fetchVars, pf, fe, conf, gm, nlaunch>>

\* code = p.wait()
WaitZero(l) == 0
WaitCode(l) == l.code[1]

\* watcher(p): p.wait() returns once the process has ended, then
\* on_exit(code) if on_exit is callable
Watcher(i) ==
    /\ launch[i].watcher = "waiting"
    /\ launch[i].proc = "exited"
    /\ launch' = [launch EXCEPT
                    ![i].watcher = "done",
                    ![i].calls = IF launch[i].on_exit = "callable"
                                 THEN Append(@, WaitCode(launch[i])) ELSE @]
    /\ UNCHANGED <<fetchVars, pf, fe, conf, gm, nlaunch>>

InitLaunch ==
    /\ InitFetcher
    /\ pf = NoPf /\ fe = NoFe /\ conf = NoConf /\ gm = NoGm
    /\ nlaunch = 0
    /\ launch = [i \in Launches |-> IdleLaunch]

NextLaunch ==
    \/ \E emExists, romExists \in BOOLEAN, on_exit \in {"callable", "None"},
          popen \in {Spawned} \cup OsErrors :
          LwCall(nlaunch + 1, emExists, romExists, on_exit, popen)
    \/ \E i \in Launches : LwReturn(i)
    \/ \E i \in Launches, code \in ExitCodes : ProcExit(i, code)
    \/ \E i \in Launches : Watcher(i)

SpecLaunch == InitLaunch /\ [][NextLaunch]_vars

\* the launcher with its threads scheduled: the GUI thread goes on to its
\* return and a watcher whose wait has ended runs
SpecLaunchLive ==
    /\ SpecLaunch
    /\ \A i \in Launches : WF_vars(LwReturn(i)) /\ WF_vars(Watcher(i))

\* ------------------------------------------------- claims: launch_and_watch
Called(i) == launch[i].pcl # "idle"

\* C14: a call whose emulator or ROM does not exist returns None; it has
\* no process and no watcher, and its on_exit is never called
C14_MissingNoSpawn ==
    \A i \in Launches :
        (Called(i) /\ (~launch[i].emExists \/ ~launch[i].romExists))
          => /\ launch[i].ret = "None"
             /\ launch[i].proc = "none"
             /\ launch[i].watcher = "none"
             /\ launch[i].calls = <<>>

\* a call with an emulator, a callback and no ROM has returned None, while
\* another call has a process
C14_Witness ==
    \E i, j \in Launches :
        /\ launch[i].emExists /\ ~launch[i].romExists
        /\ launch[i].on_exit = "callable"
        /\ launch[i].ret = "None"
        /\ launch[j].proc = "exited"

\* C15: a call that has spawned its process can return whether or not the
\* process has ended, and returns the handle; the callback is called at most
\* once, only after the process has ended and with its exit code; and a
\* callable callback of a process that has ended is eventually called
C15_HandleThenExitCode ==
    /\ [](\A i \in Launches :
            /\ launch[i].pcl = "spawned" => ENABLED LwReturn(i)
            /\ (Called(i) /\ launch[i].proc # "none" /\ launch[i].pcl = "returned")
                 => launch[i].ret = "proc"
            /\ Len(launch[i].calls) <= 1
            /\ launch[i].calls # <<>>
                 => launch[i].proc = "exited" /\ launch[i].calls = launch[i].code
            /\ (launch[i].watcher = "done" /\ launch[i].on_exit = "callable")
                 => launch[i].calls = launch[i].code)
    /\ \A i \in Launches :
         (launch[i].proc = "exited" /\ launch[i].on_exit = "callable")
           ~> (launch[i].calls = launch[i].code)

\* a call has returned its handle while the process runs, and the callback
\* of another has been called with the code of a kill by signal
C15_Witness ==
    \E i, j \in Launches :
        /\ launch[i].ret = "proc" /\ launch[i].proc = "running"
        /\ launch[j].calls = <<-9>>

\* C16 as written: what a call returns after a spawn failure differs from
\* what it returns after a missing emulator or a missing ROM
C16_ReturnDistinct ==
    \A i, j \in Launches :
        (/\ Called(i) /\ Called(j)
         /\ launch[i].dialog.title = "Launch Failed"
         /\ launch[j].dialog.title \in {"Emulator Missing", "ROM Missing"})
          => launch[i].ret # launch[j].ret

\* C16 amended: the three failures return None alike; the dialog of a spawn
\* failure has its own title and has str(e) as text, with the error number
\* and message of the OSError
C16_DialogDistinct ==
    \A i \in Launches :
        (Called(i) /\ launch[i].ret = "None")
          => \/ /\ ~launch[i].emExists
                /\ launch[i].dialog.title = "Emulator Missing"
             \/ /\ launch[i].emExists /\ ~launch[i].romExists
                /\ launch[i].dialog.title = "ROM Missing"
             \/ /\ launch[i].emExists /\ launch[i].romExists
                /\ launch[i].dialog.title = "Launch Failed"
                /\ Len(launch[i].dialog.text) = 7
                /\ \E e \in OsErrors :
                      /\ launch[i].dialog.text[2] = StrInt(e.errno)
                      /\ launch[i].dialog.text[4] = e.strerror

\* one call has failed to spawn and another has found the ROM missing
C16_Witness ==
    \E i, j \in Launches :
        /\ launch[i].dialog.title = "Launch Failed"
        /\ launch[i].dialog.text[4] = "Permission denied"
        /\ launch[j].dialog.title = "ROM Missing"
        /\ launch[i].ret = "None" /\ launch[j].ret = "None"

\* ============================================================== load_config
CONFIG_PATH == <<"c", "o", "n", "f", "i", "g", ".", "j", "s", "o", "n">>

DEFAULT ==
    [roms_dir |-> "roms",
     covers_dir |-> "resources/covers",
     recent_file |-> "recent.json",
     playtime_file |-> "playtime.json",
     rawg_api_key |-> "",
     emulators |-> [NES |-> "emulators/nestopia.exe",
                    SNES |-> "emulators/snes9x.exe",
                    GBA |-> "emulators/visualboyadvance.exe"]]

\* the configurations a config file can hold
ConfigDicts ==
    {[DEFAULT EXCEPT !.roms_dir = r, !.covers_dir = c, !.rawg_api_key = k,
                     !.emulators.NES = e] :
        r \in {"roms", "games"},
        c \in {"resources/covers", "covers", "c"},
        k \in {"", " ", "k"},
        e \in {"emulators/nestopia.exe", "emu/nestopia"}}

\* json.dump(cfg, f): the file holds the JSON text of cfg
JsonDump(d) == [kind |-> "json", value |-> <<d>>]

Absent == [kind |-> "absent", value |-> <<>>]

\* what config.json can be when load_config is called: absent, a JSON
\* object, text that is not JSON, or a file that cannot be opened
ConfigFiles ==
    {Absent, [kind |-> "corrupt", value |-> <<>>],
     [kind |-> "unreadable", value |-> <<>>]}
      \cup {JsonDump(d) : d \in ConfigDicts}

\* the index of the last "/" of a path, 0 if it has none
LastSlash(path) ==
    LET S == {i \in 1..Len(path) : path[i] = "/"}
    IN IF S = {} THEN 0 ELSE CHOOSE i \in S : \A j \in S : j <= i

\* os.path.dirname
OsPathDirname(path) ==
    LET i == LastSlash(path) IN IF i <= 1 THEN SubSeq(path, 1, i) ELSE SubSeq(path, 1, i - 1)

\* os.makedirs(path, exist_ok=True) raises FileNotFoundError on the empty path
MakedirsRaises(path) == path = <<>>

\* save_config(cfg) on the config file f: the file after the call and what
\* was printed
save_config(f, d) ==
    IF MakedirsRaises(OsPathDirname(CONFIG_PATH))
    THEN [file |-> f, printed |-> <<"Error saving config">>]
    ELSE IF f.kind = "unreadable"
    THEN [file |-> f, printed |-> <<"Error saving config">>]
    ELSE [file |-> JsonDump(d), printed |-> <<>>]

\* json.load(f) of the opened file, or DEFAULT.copy() after IOError or
\* JSONDecodeError
ReadConfig(f) ==
    IF f.kind = "json"
    THEN [value |-> f.value[1], printed |-> <<>>]
    ELSE [value |-> DEFAULT, printed |-> <<"Error loading config">>]

InitConfig ==
    /\ InitFetcher
    /\ pf = NoPf /\ fe = NoFe /\ nlaunch = 0 /\ launch = NoLaunches /\ gm = NoGm
    /\ \E f \in ConfigFiles :
          conf = [loaded |-> FALSE, pcc |-> "start", file |-> f, file0 |-> f,
                  returned |-> <<>>, printed |-> <<>>]

\* if not os.path.exists(CONFIG_PATH)
LoadConfigExists ==
    /\ conf.pcc = "start"
    /\ conf' = [conf EXCEPT !.pcc = IF conf.file.kind = "absent"
                                    THEN "save" ELSE "read"]
    /\ UNCHANGED <<fetchVars, pf, fe, launchVars, gm>>

\* save_config(DEFAULT)
LoadConfigSave ==
    /\ conf.pcc = "save"
    /\ LET r == save_config(conf.file, DEFAULT)
       IN conf' = [conf EXCEPT !.pcc = "read", !.file = r.file,
                               !.printed = @ \o r.printed]
    /\ UNCHANGED <<fetchVars, pf, fe, launchVars, gm>>

\* the try block of load_config and its return
LoadConfigRead ==
    /\ conf.pcc = "read"
    /\ LET r == ReadConfig(conf.file)
       IN conf' = [conf EXCEPT !.pcc = "returned", !.loaded = TRUE,
                               !.returned = <<r.value>>,
                               !.printed = @ \o r.printed]
    /\ UNCHANGED <<fetchVars, pf, fe, launchVars, gm>>

NextConfig == LoadConfigExists \/ LoadConfigSave \/ LoadConfigRead

SpecConfig == InitConfig /\ [][NextConfig]_vars

\* ------------------------------------------------------ claims: load_config
\* C18: after load_config has returned from a call that found no config
\* file, the file exists and holds DEFAULT, and DEFAULT was returned
C18_DefaultsWritten ==
    (conf.loaded /\ conf.file0 = Absent)
      => /\ conf.file = JsonDump(DEFAULT)
         /\ conf.returned = <<DEFAULT>>

\* ------------------------------------------------- claims: temporary files
\* another worker is still at work on the cache path of r
OtherAtWork(r) ==
    \E r2 \in Reqs \ {r} :
        /\ r2 \in threads /\ ~Terminal(r2)
        /\ req[r2].local_path = req[r].local_path

\* C19: once a fetch worker has finished, and no other worker is at work on
\* the same cache path, the temporary file of that path does not exist
C19_NoTmpLeft ==
    \A r \in Reqs :
        (r \in threads /\ Terminal(r) /\ ~OtherAtWork(r))
          => ~Exists(dir, TmpPathOf(req[r].local_path))

\* ================================================= fetches and launches mixed
\* the window fetches covers (ui_bigpicture.py line 262) and launches games
\* (line 392) from the same GUI thread: fetches of games that have an image
\* URL, with an API key set, and launches of an emulator and a ROM that exist
MixGames == {g \in Games : UrlTruthy(g.url)}

InitMix ==
    /\ InitFetcher
    /\ cfg.rawg_api_key = <<"k">>
    /\ pf = NoPf /\ fe = NoFe /\ conf = NoConf /\ gm = NoGm
    /\ nlaunch = 0
    /\ launch = [i \in Launches |-> IdleLaunch]

\* a step of the worker thread of request r
WorkerStep(r) ==
    \/ WorkerBegin(r)
    \/ DlGetFail(r)
    \/ DlGetOk(r)
    \/ DlOpen(r)
    \/ DlWrite(r)
    \/ DlReplace(r)
    \/ RawgGetFail(r)

\* a call of fetch by the GUI thread
FetchCall == \E g \in MixGames : Fetch(nreq + 1, g.key, g.url)

\* a call of launch_and_watch by the GUI thread
LaunchCall == LwCall(nlaunch + 1, TRUE, TRUE, "callable", Spawned)

NextMix ==
    \/ FetchCall
    \/ \E r \in Reqs : WorkerBegin(r)
    \/ \E r \in Reqs : DlGetFail(r)
    \/ \E r \in Reqs : DlGetOk(r)
    \/ \E r \in Reqs : DlOpen(r)
    \/ \E r \in Reqs : DlWrite(r)
    \/ \E r \in Reqs : DlReplace(r)
    \/ \E r \in Reqs : RawgGetFail(r)
    \/ LaunchCall
    \/ \E i \in Launches : LwReturn(i)
    \/ \E i \in Launches : ProcExit(i, 0)
    \/ \E i \in Launches : Watcher(i)

SpecMix == InitMix /\ [][NextMix]_vars

\* ---------------------------------------------------- claims: no blocking
\* a worker waits for the network, a watcher for a process that runs
Suspended(r) == r \in threads /\ pc[r] \in {"dl_get", "rawg_get"}
WatcherWaits(i) == launch[i].watcher = "waiting" /\ launch[i].proc = "running"

\* C17: whatever workers wait for the network and whatever watchers wait
\* for a process, every other worker that has not finished can take its next
\* step, a watcher whose process has ended can run, a launch_and_watch call
\* past Popen can return, and the GUI thread can make its next fetch and
\* its next launch_and_watch call
C17_NoBlocking ==
    /\ \A r \in Reqs :
         (r \in threads /\ ~Terminal(r)) => ENABLED WorkerStep(r)
    /\ \A i \in Launches :
         /\ launch[i].pcl = "spawned" => ENABLED LwReturn(i)
         /\ (launch[i].watcher = "waiting" /\ launch[i].proc = "exited")
              => ENABLED Watcher(i)
    /\ (\A i \in Launches : launch[i].pcl # "spawned")
         => /\ nreq < MaxReq => ENABLED FetchCall
            /\ nlaunch < MaxLaunch => ENABLED LaunchCall

\* with a worker waiting for the network and a watcher waiting for its
\* process, another fetch has delivered its file and another launch has had
\* its callback
C17_Witness ==
    \E r1, r2 \in Reqs, i, j \in Launches :
        /\ Suspended(r1) /\ WatcherWaits(i)
        /\ r2 \in threads /\ pc[r2] = "done" /\ delivered[r2] = <<req[r2].local_path>>
        /\ launch[j].calls = <<0>>

\* ================================================================ scan_roms
\* at most this many entries in data/games.json
MaxGames == 2
\* at most this many files in a console directory
MaxRoms == 2

SUPPORTED_EXTS ==
    { <<".", "n", "e", "s">>, <<".", "s", "m", "c">>, <<".", "s", "f", "c">>,
      <<".", "g", "b", "a">>, <<".", "g", "b", "c">>, <<".", "g", "b">> }

\* dict.get(field, default) on a value of a JSON object that may be
\* missing: <<>> when it is, <<value>> when it is not
GetOr(opt, default) == IF opt = <<>> THEN default ELSE opt[1]

NES == <<"N", "E", "S">>
GB == <<"G", "B">>

\* entries data/games.json can hold: two games of one console and name, a
\* game with a key of its own, one without console, one without name
JsonEntries ==
    { [console |-> <<NES>>, rom_path |-> <<<<"r", "1">>>>,
       name |-> <<<<"a">>>>, key |-> <<>>],
      [console |-> <<NES>>, rom_path |-> <<<<"/", "r", "2">>>>,
       name |-> <<<<"a">>>>, key |-> <<>>],
      [console |-> <<NES>>, rom_path |-> <<<<"r", "1">>>>,
       name |-> <<>>, key |-> <<<<"k">>>>],
      [console |-> <<>>, rom_path |-> <<<<"r", "3">>>>,
       name |-> <<<<"b">>>>, key |-> <<>>],
      [console |-> <<GB>>, rom_path |-> <<<<"r", "3">>>>,
       name |-> <<>>, key |-> <<>>] }

\* what data/games.json can be: absent, not JSON, or a list of entries
DataFiles ==
    { [kind |-> "absent", list |-> <<>>], [kind |-> "corrupt", list |-> <<>>] }
      \cup { [kind |-> "json", list |-> l] :
               l \in UNION {[1..n -> JsonEntries] : n \in 0..MaxGames} }

\* names of the files of a console directory
RomNames ==
    { <<"a", ".", "n", "e", "s">>, <<"a", ".", "g", "b">>,
      <<"a", ".", "N", "E", "S">>, <<"b", ".", "n", "e", "s">>,
      <<"a", ".", "t", "x", "t">> }

\* a directory entry of roms/: absent, a regular file, or a directory of files
ConsoleDirs(names) ==
    { [kind |-> "absent", files |-> {}], [kind |-> "file", files |-> {}] }
      \cup { [kind |-> "dir", files |-> S] :
               S \in {T \in SUBSET names : Cardinality(T) <= MaxRoms} }

\* what roms/ can be: absent, or a directory with entries NES and GB
RomsDirs ==
    { [kind |-> "absent", NES |-> d, GB |-> d] :
        d \in {[kind |-> "absent", files |-> {}]} }
      \cup { [kind |-> "dir", NES |-> n, GB |-> g] :
               n \in ConsoleDirs(RomNames),
               g \in ConsoleDirs({<<"a", ".", "g", "b">>}) }

\* the code point of a character of the names above, for sorted()
Ord(c) ==
    CASE c = "." -> 46
      [] c = "B" -> 66 [] c = "E" -> 69 [] c = "G" -> 71
      [] c = "N" -> 78 [] c = "S" -> 83
      [] c = "a" -> 97 [] c = "b" -> 98 [] c = "e" -> 101
      [] c = "g" -> 103 [] c = "n" -> 110 [] c = "s" -> 115
      [] c = "t" -> 116 [] c = "x" -> 120
      [] OTHER -> 0

\* a < b for strings, by code points
RECURSIVE StrLess(_, _)
StrLess(a, b) ==
    IF b = <<>> THEN FALSE
    ELSE IF a = <<>> THEN TRUE
    ELSE IF Ord(Head(a)) # Ord(Head(b)) THEN Ord(Head(a)) < Ord(Head(b))
    ELSE StrLess(Tail(a), Tail(b))

\* sorted(S) for a set of strings
RECURSIVE Sorted(_)
Sorted(S) ==
    IF S = {} THEN <<>>
    ELSE LET m == CHOOSE x \in S : \A y \in S \ {x} : StrLess(x, y)
         IN <<m>> \o Sorted(S \ {m})

\* os.path.abspath, with / as the working directory
OsPathAbspath(path) ==
    IF path # <<>> /\ path[1] = "/" THEN path ELSE <<"/">> \o path

\* os.path.splitext(file)[0]: the name up to its last dot, the whole name
\* when the last dot is the first character or there is none
SplitextRoot(file) ==
    LET D == {i \in 1..Len(file) : file[i] = "."}
        i == IF D = {} THEN 0 ELSE CHOOSE k \in D : \A j \in D : j <= k
    IN IF i <= 1 THEN file ELSE SubSeq(file, 1, i - 1)

\* file.lower().endswith(SUPPORTED_EXTS)
Supported(file) == \E ext \in SUPPORTED_EXTS : EndsWith(Lower(file), ext)

\* f"{console}::{name}"
KeyOf(console, name) == console \o <<":", ":">> \o name

\* not console or not path
Skipped(g) ==
    \/ g.console = <<>> \/ g.console[1] = <<>>
    \/ g.rom_path = <<>> \/ g.rom_path[1] = <<>>

\* lines 58-66: the record appended for a valid entry of data/games.json
LoadedGame(g) ==
    [key |-> GetOr(g.key, KeyOf(g.console[1], GetOr(g.name, <<"U", "n", "k", "n", "o", "w", "n">>))),
     name |-> g.name,
     console |-> g.console[1],
     rom_path |-> OsPathAbspath(g.rom_path[1])]

\* lines 44-66: the loop over the loaded list
RECURSIVE LoadGames(_)
LoadGames(l) ==
    IF l = <<>> THEN <<>>
    ELSE (IF Skipped(Head(l)) THEN <<>> ELSE <<LoadedGame(Head(l))>>)
           \o LoadGames(Tail(l))

\* lines 99-115: the record appended for a ROM file
ScannedGame(console, file) ==
    [key |-> KeyOf(console, SplitextRoot(file)),
     name |-> <<SplitextRoot(file)>>,
     console |-> console,
     rom_path |-> OsPathAbspath(<<"r", "o", "m", "s", "/">> \o console \o <<"/">> \o file)]

\* lines 95-115: the games of one console directory, in sorted order
RECURSIVE ScanFiles(_, _)
ScanFiles(console, files) ==
    IF files = <<>> THEN <<>>
    ELSE (IF Supported(Head(files))
          THEN <<ScannedGame(console, Head(files))>> ELSE <<>>)
           \o ScanFiles(console, Tail(files))

\* lines 77-115: sorted(os.listdir(roms_dir)) enumerates GB before NES; an
\* entry of roms/ that is not a directory is passed over
GamesFromRoms(roms) ==
    LET ScanConsole(console, d) ==
            IF d.kind = "dir" THEN ScanFiles(console, Sorted(d.files)) ELSE <<>>
    IN IF roms.kind # "dir" THEN <<>>
       ELSE ScanConsole(GB, roms.GB) \o ScanConsole(NES, roms.NES)

InitGames ==
    /\ InitFetcher
    /\ cfg.rawg_api_key = <<>>
    /\ pf = NoPf /\ fe = NoFe /\ conf = NoConf
    /\ nlaunch = 0 /\ launch = NoLaunches
    /\ \E data \in DataFiles, roms \in RomsDirs :
          gm = [returned |-> FALSE, pcg |-> "start", data |-> data,
                roms |-> roms, games |-> <<>>]

\* lines 30-71: data/games.json is read when it exists; no game is loaded
\* when it is absent or json.load fails
ScanLoadData ==
    /\ gm.pcg = "start"
    /\ gm' = [gm EXCEPT !.pcg = "loaded",
                        !.games = IF gm.data.kind = "json"
                                  THEN LoadGames(gm.data.list) ELSE <<>>]
    /\ UNCHANGED <<fetchVars, pf, fe, launchVars, conf>>

\* lines 75-120: without games from the data file the ROM folders are
\* scanned; the list is returned
ScanFallback ==
    /\ gm.pcg = "loaded"
    /\ gm' = [gm EXCEPT !.pcg = "returned", !.returned = TRUE,
                        !.games = IF gm.games = <<>>
                                  THEN GamesFromRoms(gm.roms) ELSE @]
    /\ UNCHANGED <<fetchVars, pf, fe, launchVars, conf>>

NextGames == ScanLoadData \/ ScanFallback

SpecGames == InitGames /\ [][NextGames]_vars

\* -------------------------------------------------------- claims: scan_roms
\* C21: no two games of the list scan_roms returns have the same key
C21_KeyUnique ==
    gm.returned =>
        \A i, j \in 1..Len(gm.games) :
            gm.games[i].key = gm.games[j].key => i = j

\* ------------------------------------------------- claims: delivered paths
\* C22: every non-empty path delivered for a request is the cache path of
\* the request's key, and a file exists at that path in the state of the
\* delivery and in every later state
C22_DeliveredFileStays ==
    \A r \in Reqs : \A k \in 1..Len(delivered[r]) :
        delivered[r][k] # <<>>
          => /\ delivered[r][k] = local_path_for(req[r].key)
             /\ Exists(dir, delivered[r][k])

\* a worker has delivered the path of its download, and a later fetch of the
\* same key has delivered it from the cache
C22_Witness ==
    \E r1, r2 \in Reqs :
        /\ r1 < r2
        /\ r1 \in threads /\ r2 \notin threads
        /\ req[r1].key = req[r2].key
        /\ delivered[r1] = <<req[r1].local_path>>
        /\ delivered[r2] = <<req[r1].local_path>>

====
